---- MODULE Spec2Model ----
(***************************************************************************)
(* Model of the vocabulary push of language-assistant: the Bloom filter    *)
(* of internal/models, its DynamoDB repository, and the word supply loop   *)
(* and push handler of services/public/func/language-vocabulary.           *)
(***************************************************************************)
EXTENDS Integers, Sequences, FiniteSets, TLC

VARIABLES
    bf,           \* a BloomFilter value held in memory (models.BloomFilter)
    added,        \* the words Add has been called with on bf
    lastContains, \* the last Contains call on bf: <<word, result, word was added before>>,
                  \* or the last FilterWords call: <<words, words returned, TRUE>>
    store,        \* the vocabulary table: (user, course) -> stored filter item
    userCfg,      \* the user table: user -> stored config item
    inv,          \* per invocation of HandleWordPush: its locals and position
    delivered,    \* per user: the word lists PushMessage has delivered, in order
    faults,       \* the kinds of collaborator failure that have happened so far
    saves,        \* the number of PutItem calls the vocabulary table has taken
    web           \* the webhook handler (language-handler): the events it has
                  \* handled for the user, its replies, schedule and background pushes

vars == <<bf, added, lastContains, store, userCfg, inv, delivered, faults, saves, web>>

\* the variables of the vocabulary push
pushVars == <<bf, added, lastContains, store, inv, delivered, saves>>

(***************************************************************************)
(* Bounds of the model.                                                    *)
(***************************************************************************)
MaxBatch == 2   \* longest word list one generator call returns
MaxDaily == 3   \* largest dailyWords of a stored user config
MaxEvents == 4  \* webhook events the handler takes for the user
MaxRuns == 2    \* invocations of HandleWordPush, or writes of AddWordsToBloomFilter,
                \* one after the other
SeqBatch == 1   \* longest word list of a generator call when invocations follow
                \* or overlap one another
SeqDaily == 1   \* largest dailyWords of the user of those invocations

(***************************************************************************)
(* Words and their SHA-256 digests.  A uint64 is four 16-bit limbs, least  *)
(* significant first, so that the 64-bit wrap-around of the code is kept.  *)
(***************************************************************************)
Words == {"a", "b", "c", "d", "e"}

LimbBase == 65536

\* sha256(word): the first 8 bytes (hash1) and the next 8 bytes (hash2), big endian
sha256 ==
    [a |-> [hash1 |-> <<48586, 51739, 33042, 51863>>, hash2 |-> <<56397, 39459, 12723, 64194>>],
     b |-> [hash1 |-> <<22858, 57, 59414, 15907>>,    hash2 |-> <<45364, 25825, 20325, 13193>>],
     c |-> [hash1 |-> <<31458, 43344, 11267, 11901>>, hash2 |-> <<34213, 13672, 62901, 26092>>],
     d |-> [hash1 |-> <<5769, 17392, 15987, 6316>>,   hash2 |-> <<9745, 63797, 3731, 3153>>],
     e |-> [hash1 |-> <<1330, 17243, 47995, 16249>>,  hash2 |-> <<52678, 54132, 56047, 5713>>]]

\* x + y in uint64 (the carry out of the top limb is dropped)
RECURSIVE U64AddFrom(_, _, _, _)
U64AddFrom(x, y, i, carry) ==
    IF i > 4 THEN <<>>
    ELSE LET s == x[i] + y[i] + carry
         IN  <<s % LimbBase>> \o U64AddFrom(x, y, i + 1, s \div LimbBase)

\* the carry out of the top limb of x + y: 1 when the sum passes 2^64
RECURSIVE AddCarryFrom(_, _, _, _)
AddCarryFrom(x, y, i, carry) ==
    IF i > 4 THEN carry
    ELSE AddCarryFrom(x, y, i + 1, (x[i] + y[i] + carry) \div LimbBase)

\* the carry out of the top limb of uint64(i) * y
RECURSIVE MulCarryFrom(_, _, _, _)
MulCarryFrom(i, y, k, carry) ==
    IF k > 4 THEN carry
    ELSE MulCarryFrom(i, y, k + 1, (i * y[k] + carry) \div LimbBase)

\* x + y with a fault: a sum that passes 2^64 stays at the largest uint64
U64AddSaturating(x, y) ==
    IF AddCarryFrom(x, y, 1, 0) > 0
    THEN <<LimbBase - 1, LimbBase - 1, LimbBase - 1, LimbBase - 1>>
    ELSE U64AddFrom(x, y, 1, 0)

U64Add(x, y) == U64AddFrom(x, y, 1, 0)

\* uint64(i) * y in uint64, for a small i
RECURSIVE U64MulFrom(_, _, _, _)
U64MulFrom(i, y, k, carry) ==
    IF k > 4 THEN <<>>
    ELSE LET s == i * y[k] + carry
         IN  <<s % LimbBase>> \o U64MulFrom(i, y, k + 1, s \div LimbBase)

U64Mul(i, y) == U64MulFrom(i, y, 1, 0)

\* x % uint64(m), for 0 < m <= 32768
U64Mod(x, m) ==
    LET r4 == x[4] % m
        r3 == (r4 * LimbBase + x[3]) % m
        r2 == (r3 * LimbBase + x[2]) % m
    IN  (r2 * LimbBase + x[1]) % m

(***************************************************************************)
(* models.BloomFilter.  BitArray is its byte length n and the set "on" of  *)
(* the <<byteIndex, bitIndex>> that are 1; every other bit is 0.           *)
(***************************************************************************)
BloomSize == 8192
BloomHashCount == 5

\* NewBloomFilter with a fault: a small expectedElements gives a small array
NewBloomFilterSized(userID, expectedElements) ==
    LET size == IF expectedElements < 1000 THEN 1024 ELSE BloomSize
    IN  [UserID    |-> userID,
         BitArray  |-> [n |-> (size + 7) \div 8, on |-> {}],
         Size      |-> size,
         HashCount |-> BloomHashCount]

NewBloomFilter(userID, expectedElements) ==
    [UserID    |-> userID,
     BitArray  |-> [n |-> (BloomSize + 7) \div 8, on |-> {}],
     Size      |-> BloomSize,
     HashCount |-> BloomHashCount]

\* the hash values of every word, for each HashCount a filter can have
\* (a table, so that the 64-bit arithmetic is evaluated once)
HashCounts == {BloomHashCount}

hashTable ==
    [k \in HashCounts |-> [word \in Words |-> [i \in 1..k |->
        U64Add(sha256[word].hash1, U64Mul(i - 1, sha256[word].hash2))]]]

\* getHashes: hashes[i] = hash1 + uint64(i)*hash2 for i in [0, HashCount)
getHashes(f, word) == hashTable[f.HashCount][word]

\* the bit of one hash value: <<byteIndex, bitIndex>>
BitOf(f, hash) ==
    LET index == U64Mod(hash, f.Size)
    IN  <<index \div 8, index % 8>>

\* AddBits with an off-by-one fault: the last hash value is left out
AddBitsSkipLast(f, word) ==
    LET hashes == getHashes(f, word)
    IN  {BitOf(f, hashes[i]) : i \in {j \in 1..(f.HashCount - 1) :
              BitOf(f, hashes[j])[1] < f.BitArray.n}}

\* the bits Add sets: a position past the end of BitArray is skipped
AddBits(f, word) ==
    LET hashes == getHashes(f, word)
    IN  {BitOf(f, hashes[i]) : i \in {j \in 1..f.HashCount :
              BitOf(f, hashes[j])[1] < f.BitArray.n}}

\* Add with a fault: the bits of the word are flipped instead of set
BloomAddToggle(f, word) ==
    [f EXCEPT !.BitArray.on = (@ \ AddBits(f, word)) \cup (AddBits(f, word) \ @)]

\* Add with a fault: the array is overwritten with the bits of the word
BloomAddOverwrite(f, word) ==
    [f EXCEPT !.BitArray.on = AddBits(f, word)]

BloomAdd(f, word) ==
    [f EXCEPT !.BitArray.on = @ \cup AddBits(f, word)]

\* Contains, probe by probe: "true", "false", or "panic" when a probe indexes
\* past the end of BitArray before an unset bit is found
RECURSIVE ContainsFrom(_, _, _)
ContainsFrom(f, hashes, i) ==
    IF i > Len(hashes) THEN "true"
    ELSE LET b == BitOf(f, hashes[i])
         IN  IF b[1] >= f.BitArray.n THEN "panic"
             ELSE IF b \notin f.BitArray.on THEN "false"
             ELSE ContainsFrom(f, hashes, i + 1)

ContainsOutcome(f, word) == ContainsFrom(f, getHashes(f, word), 1)

\* Contains with a fault: one set probe position is enough
ContainsAnyProbe(f, word) ==
    \E i \in 1..f.HashCount : BitOf(f, getHashes(f, word)[i]) \in f.BitArray.on

Contains(f, word) == ContainsOutcome(f, word) = "true"

(***************************************************************************)
(* The filter alone: Add and Contains on one filter from NewBloomFilter.   *)
(***************************************************************************)
Users == {"u1"}
Courses == {"toeic"}
ExpectedElements == {1, 10000}

NoItem == [absent |-> TRUE]
NoCall == <<"", FALSE, FALSE>>

\* the webhook handler before any event
WebIdle ==
    [seq |-> 0,            \* the events handled so far
     event |-> "",         \* the kind of the last event
     reply |-> "",         \* the last reply sent to the user
     scoreInput |-> "",    \* what handleScoreInput returned in the last event, if called
     accepted |-> FALSE,   \* a valid score was accepted since the last course selection
     setup |-> "",         \* what setupUserPushSchedule returned in the last event, if called
     schedule |-> FALSE,   \* the user has a daily schedule
     pending |-> 0,        \* immediate pushes dispatched and not yet run
     invoked |-> {},       \* the outcomes of the immediate pushes that have run
     temp |-> 0,           \* tempDailyWordsStorage[user], 0 when there is no entry
     panicked |-> FALSE]   \* an event handler has panicked

InitRest ==
    /\ web = WebIdle
    /\ store = [k \in Users \X Courses |-> NoItem]
    /\ userCfg = [u \in Users |-> NoItem]
    /\ inv = <<>>
    /\ delivered = [u \in Users |-> <<>>]
    /\ faults = {}
    /\ saves = 0

InitBloom ==
    /\ \E n \in ExpectedElements : bf = NewBloomFilter("u1", n)
    /\ added = {}
    /\ lastContains = NoCall
    /\ InitRest

Add(word) ==
    /\ bf' = BloomAdd(bf, word)
    /\ added' = added \cup {word}
    /\ UNCHANGED <<lastContains, store, userCfg, inv, delivered, faults, saves, web>>

ContainsCall(word) ==
    /\ lastContains' = <<word, Contains(bf, word), word \in added>>
    /\ UNCHANGED <<bf, added, store, userCfg, inv, delivered, faults, saves, web>>

NextBloom ==
    \/ \E w \in Words : Add(w)
    \/ \E w \in Words : ContainsCall(w)

SpecBloom == InitBloom /\ [][NextBloom]_vars

(***************************************************************************)
(* C1.  No false negatives: once Add(w) has been called on a filter made   *)
(* by NewBloomFilter, Contains(w) is true in every later state, whatever   *)
(* other words are added before or after.                                  *)
(***************************************************************************)
C1_NoFalseNegatives ==
    /\ \A w \in added : ContainsOutcome(bf, w) = "true"
    /\ lastContains[3] => lastContains[2]

\* "a" was added, other words were added too, and Contains("a") was then called
C1_Witness ==
    /\ "a" \in added
    /\ Cardinality(added) >= 3
    /\ lastContains = <<"a", TRUE, TRUE>>

(***************************************************************************)
(* BloomFilterRepository: the filter of a (user, course) in the vocabulary *)
(* table.  UpdatedAt is a timestamp no decision reads and is left out.     *)
(***************************************************************************)
DefaultExpected == 10000

\* the errors AddWordsToBloomFilter returns
ErrGet == "failed to get bloom filter"
ErrSave == "failed to save updated bloom filter"

\* GetBloomFilter with a fault: the filter made for an absent item is not empty
GetBloomFilterSeeded(item, userID) ==
    IF item = NoItem
    THEN [NewBloomFilter(userID, DefaultExpected) EXCEPT
             !.BitArray.on = AddBits(NewBloomFilter(userID, DefaultExpected), "a")]
    ELSE item

\* GetBloomFilter with a fault: the stored item is ignored
GetBloomFilterFresh(item, userID) == NewBloomFilter(userID, DefaultExpected)

\* GetBloomFilter on the item GetItem returned: a new filter when there is none
GetBloomFilter(item, userID) ==
    IF item = NoItem THEN NewBloomFilter(userID, DefaultExpected) ELSE item

\* SaveBloomFilter with a fault: nothing is written
SaveBloomFilterDropped(table, filter, course) == table

\* SaveBloomFilter with a fault: the key leaves out the user
SaveBloomFilterShared(table, filter, course) ==
    [k \in DOMAIN table |-> IF k[2] = course THEN filter ELSE table[k]]

\* SaveBloomFilter: PutItem of the whole filter under (filter.UserID, course)
SaveBloomFilter(table, filter, course) ==
    [table EXCEPT ![<<filter.UserID, course>>] = filter]

\* FilterWords with a fault: the words Contains reports are the ones kept
FilterWordsInverted(filter, words) ==
    SelectSeq(words, LAMBDA w : Contains(filter, w))

\* FilterWords on a loaded filter: the words for which Contains is false, in order
FilterWords(filter, words) ==
    SelectSeq(words, LAMBDA w : ~Contains(filter, w))

\* FilterWords panics when a Contains call indexes past the end of BitArray
FilterPanics(filter, words) ==
    \E i \in 1..Len(words) : ContainsOutcome(filter, words[i]) = "panic"

\* AddAll with an off-by-one fault: it stops before the last word
RECURSIVE AddAllButLast(_, _, _)
AddAllButLast(filter, words, i) ==
    IF i >= Len(words) THEN filter
    ELSE AddAllButLast(BloomAdd(filter, words[i]), words, i + 1)

\* the loop of AddWordsToBloomFilter: Add of every word, in order
RECURSIVE AddAll(_, _, _)
AddAll(filter, words, i) ==
    IF i > Len(words) THEN filter
    ELSE AddAll(BloomAdd(filter, words[i]), words, i + 1)

\* AddWordsToBloomFilter logs filter.BitArray[:10]: a panic on a shorter array
LoggedPrefix == 10
AddWordsPanics(filter) == filter.BitArray.n < LoggedPrefix

(***************************************************************************)
(* userConfigRepository.GetUserConfig on a stored item.                    *)
(***************************************************************************)
\* An item is [displayName, course, level, dailyWords, pushTime]; a value of 0
\* or "" stands for an item without the attribute (SaveUserConfig writes none
\* for it), read as the default.  The timezone has one value and is left out.
DefaultDailyWords == 10

DefaultPushTime == "08:00"

GetUserConfig(item, userID) ==
    [UserID      |-> userID,
     DisplayName |-> item.displayName,
     Course      |-> item.course,
     Level       |-> item.level,
     DailyWords  |-> IF item.dailyWords = 0 THEN DefaultDailyWords ELSE item.dailyWords,
     PushTime    |-> IF item.pushTime = "" THEN DefaultPushTime ELSE item.pushTime]

\* SaveUserConfig: PutItem of a new item that holds the arguments which are not
\* zero or empty, in place of the item stored before
SaveUserConfig(table, userID, displayName, course, level, dailyWords, pushTime) ==
    [table EXCEPT ![userID] =
        [displayName |-> displayName, course |-> course, level |-> level,
         dailyWords |-> dailyWords, pushTime |-> pushTime]]

(***************************************************************************)
(* Handler.generateWordsWithBloomFilter and Handler.HandleWordPush, one    *)
(* step per call of a collaborator.  inv[p] holds the locals of invocation *)
(* p and pc, the call it is about to make.                                 *)
(***************************************************************************)
maxAttempts == 5

\* the count the generator is asked for: wordCount * 3 on the first attempt,
\* wordCount * 5 after an attempt that left the list short
InitialGenerateCount(wordCount) == wordCount * 3

\* EscalatedGenerateCount with a fault: the count stays what it was
EscalatedGenerateCountSame(wordCount) == wordCount * 3

EscalatedGenerateCount(wordCount) == wordCount * 5

NoFilter == [none |-> TRUE]

Idle ==
    [pc |-> "idle", userID |-> "", course |-> "", level |-> 0, wordCount |-> 0,
     attempt |-> 0, generateCount |-> 0, finalWords |-> <<>>,
     words |-> <<>>, newWords |-> <<>>, filter |-> NoFilter,
     calls |-> 0, status |-> "", message |-> "", err |-> "", sent |-> 0,
     \* history of the invocation, read by the properties only
     before   |-> NoFilter,  \* the stored item of its (user, course) when it began
     offered  |-> {},        \* the words the generator has returned to it
     doubled  |-> {},        \* the words FilterWords has returned twice in one batch
     survivors |-> <<>>,     \* the words FilterWords has returned, attempt after attempt
     asked    |-> <<>>,      \* the count each generator call asked for, in order
     push     |-> "",        \* the outcome of its PushMessage: "ok" or "failed"
     loadedAt |-> 0,         \* saves when AddWordsToBloomFilter loaded the filter
     raced    |-> FALSE,     \* the table was written between that load and its save
     saved    |-> FALSE,     \* its SaveBloomFilter succeeded
     addErr   |-> "",        \* the error its AddWordsToBloomFilter returned, if any
     run      |-> 1]         \* how many invocations this one comes after, plus one

\* ReturnError with a fault: a Go error is returned and no response
ReturnErrorNoResponse(r, message) ==
    [r EXCEPT !.pc = "done", !.status = "failed", !.message = message,
              !.words = <<>>, !.newWords = <<>>, !.filter = NoFilter]

\* return of HandleWordPush with status "error"
ReturnError(r, message) ==
    [r EXCEPT !.pc = "done", !.status = "error", !.message = message,
              !.words = <<>>, !.newWords = <<>>, !.filter = NoFilter]

\* ReturnSuccess with a fault: a failed AddWordsToBloomFilter is reported
ReturnSuccessUnlessAddFailed(r) ==
    IF r.addErr # ""
    THEN [r EXCEPT !.pc = "done", !.status = "error",
                   !.message = "Failed to add words to bloom filter",
                   !.filter = NoFilter]
    ELSE [r EXCEPT !.pc = "done", !.status = "success",
                   !.message = "Words sent successfully",
                   !.sent = Len(r.finalWords), !.filter = NoFilter]

\* ReturnSuccess with a fault: wordCount is the count asked for, not len(words)
ReturnSuccessDesired(r) ==
    [r EXCEPT !.pc = "done", !.status = "success",
              !.message = "Words sent successfully",
              !.sent = r.wordCount, !.filter = NoFilter]

\* return of HandleWordPush with status "success" and wordCount len(words)
ReturnSuccess(r) ==
    [r EXCEPT !.pc = "done", !.status = "success",
              !.message = "Words sent successfully",
              !.sent = Len(r.finalWords), !.filter = NoFilter]

\* a runtime panic ends the invocation without a response
Panic(r) ==
    [r EXCEPT !.pc = "done", !.status = "panic",
              !.words = <<>>, !.newWords = <<>>, !.filter = NoFilter]

\* the errors generateWordsWithBloomFilter returns
ErrExhausted == "failed to generate any new words"
ErrGenerator == "failed to generate words on attempt"
ErrFilter == "failed to filter words"

\* SupplyError with a fault: after a failed filter load the attempt is made again
SupplyErrorRetries(r, err) ==
    IF err = ErrFilter /\ r.calls < maxAttempts
    THEN [r EXCEPT !.pc = "generate", !.words = <<>>]
    ELSE ReturnError([r EXCEPT !.err = err], "Failed to generate words")

\* SupplyError with a fault: the words accumulated so far are returned
\* instead of the error when there are any
SupplyErrorKeepsWords(r, err) ==
    IF Len(r.finalWords) > 0
    THEN [r EXCEPT !.pc = "push", !.err = err,
                   !.words = <<>>, !.newWords = <<>>, !.filter = NoFilter]
    ELSE ReturnError([r EXCEPT !.err = err], "Failed to generate words")

\* generateWordsWithBloomFilter returned err, which HandleWordPush reports
SupplyError(r, err) ==
    ReturnError([r EXCEPT !.err = err], "Failed to generate words")

\* AfterLoop with a fault: an empty list is returned instead of the error
AfterLoopNoError(r) ==
    [r EXCEPT !.pc = "push",
              !.finalWords = IF Len(@) > r.wordCount
                             THEN SubSeq(@, 1, r.wordCount) ELSE @]

\* after the loop: no words is an error, more than wordCount is cut
AfterLoop(r) ==
    IF Len(r.finalWords) = 0
    THEN SupplyError(r, ErrExhausted)
    ELSE [r EXCEPT !.pc = "push",
                   !.finalWords = IF Len(@) > r.wordCount
                                  THEN SubSeq(@, 1, r.wordCount) ELSE @]

\* LoopHead with an off-by-one fault: attempt <= maxAttempts + 1
LoopHeadOneMore(r) ==
    IF r.attempt <= maxAttempts + 1 /\ Len(r.finalWords) < r.wordCount
    THEN [r EXCEPT !.pc = "generate"]
    ELSE AfterLoop(r)

\* the loop condition: attempt <= maxAttempts && len(finalWords) < wordCount
LoopHead(r) ==
    IF r.attempt <= maxAttempts /\ Len(r.finalWords) < r.wordCount
    THEN [r EXCEPT !.pc = "generate"]
    ELSE AfterLoop(r)

\* AppendNew with a fault: the new words are taken from the last to the first
RECURSIVE AppendNewFromBack(_, _, _, _)
AppendNewFromBack(finalWords, newWords, wordCount, i) ==
    IF i > Len(newWords) \/ Len(finalWords) >= wordCount THEN finalWords
    ELSE AppendNewFromBack(Append(finalWords, newWords[Len(newWords) + 1 - i]),
                           newWords, wordCount, i + 1)

\* "for _, word := range newWords": append while len(finalWords) < wordCount
RECURSIVE AppendNew(_, _, _, _)
AppendNew(finalWords, newWords, wordCount, i) ==
    IF i > Len(newWords) \/ Len(finalWords) >= wordCount THEN finalWords
    ELSE AppendNew(Append(finalWords, newWords[i]), newWords, wordCount, i + 1)

BoundedSeq(S, n) == UNION {[1..k -> S] : k \in 0..n}

Range(seq) == {seq[i] : i \in 1..Len(seq)}

Count(seq, w) == Cardinality({i \in 1..Len(seq) : seq[i] = w})

Repeated(seq) == {w \in Range(seq) : Count(seq, w) > 1}

\* PushFailed with a fault: the error is passed over and the words are recorded
PushFailedLogged(r) ==
    [r EXCEPT !.pc = "addGet", !.push = "failed"]

\* HandleWordPush when sendWordsToUser returned an error
PushFailed(r) ==
    ReturnError([r EXCEPT !.push = "failed"], "Failed to send words to user")

\* HandleWordPush up to its first generator call: the userId check and
\* GetUserConfig (ok = FALSE: GetItem failed)
HandleWordPush(p, userID, ok) ==
    /\ inv[p].pc = "idle"
    /\ LET r == [inv[p] EXCEPT !.userID = userID]
       IN  IF userID = ""
           THEN /\ inv' = [inv EXCEPT ![p] = ReturnError(r, "User ID is required")]
                /\ UNCHANGED faults
           ELSE IF ~ok
           THEN /\ inv' = [inv EXCEPT ![p] =
                              ReturnError(r, "Failed to get user configuration")]
                /\ faults' = faults \cup {"config"}
           ELSE IF userCfg[userID] = NoItem
           THEN /\ inv' = [inv EXCEPT ![p] =
                              ReturnError(r, "User configuration not found")]
                /\ UNCHANGED faults
           ELSE LET c == GetUserConfig(userCfg[userID], userID)
                IN  /\ inv' = [inv EXCEPT ![p] =
                                 LoopHead([r EXCEPT !.before = store[<<userID, c.Course>>],
                                                    !.course = c.Course,
                                                    !.level = c.Level,
                                                    !.wordCount = c.DailyWords,
                                                    !.generateCount =
                                                        InitialGenerateCount(c.DailyWords),
                                                    !.attempt = 1])]
                    /\ UNCHANGED faults
    /\ UNCHANGED <<bf, added, lastContains, store, userCfg, delivered, saves, web>>

\* generateWords: the generator call of one attempt (ok = FALSE: it failed)
GenerateWords(p, batch, ok) ==
    /\ inv[p].pc = "generate"
    /\ LET r == [inv[p] EXCEPT !.calls = @ + 1,
                               !.asked = Append(@, inv[p].generateCount)]
       IN  IF ~ok
           THEN /\ inv' = [inv EXCEPT ![p] =
                              SupplyError(r, ErrGenerator)]
                /\ faults' = faults \cup {"generator"}
           ELSE /\ inv' = [inv EXCEPT ![p] =
                              [r EXCEPT !.pc = "filter", !.words = batch,
                                        !.offered = @ \cup Range(batch)]]
                /\ UNCHANGED faults
    /\ UNCHANGED <<bf, added, lastContains, store, userCfg, delivered, saves, web>>

\* bloomFilterRepo.FilterWords of the attempt (ok = FALSE: GetItem failed)
FilterStep(p, ok) ==
    /\ inv[p].pc = "filter"
    /\ LET r == inv[p]
           filter == GetBloomFilter(store[<<r.userID, r.course>>], r.userID)
       IN  IF ~ok
           THEN /\ inv' = [inv EXCEPT ![p] =
                              SupplyError(r, ErrFilter)]
                /\ faults' = faults \cup {"store"}
           ELSE IF FilterPanics(filter, r.words)
           THEN /\ inv' = [inv EXCEPT ![p] = Panic([r EXCEPT !.filter = filter])]
                /\ UNCHANGED faults
           ELSE /\ inv' = [inv EXCEPT ![p] =
                              [r EXCEPT !.pc = "append", !.filter = filter,
                                        !.newWords = FilterWords(filter, r.words),
                                        !.doubled = @ \cup
                                            Repeated(FilterWords(filter, r.words)),
                                        !.survivors = @ \o FilterWords(filter, r.words)]]
                /\ UNCHANGED faults
    /\ UNCHANGED <<bf, added, lastContains, store, userCfg, delivered, saves, web>>

\* the rest of the attempt: append the new words, then break or go round
AppendStep(p) ==
    /\ inv[p].pc = "append"
    /\ LET r == inv[p]
           q == [r EXCEPT !.finalWords = AppendNew(@, r.newWords, r.wordCount, 1),
                          !.words = <<>>, !.newWords = <<>>, !.filter = NoFilter]
       IN  inv' = [inv EXCEPT ![p] =
                      IF Len(q.finalWords) >= q.wordCount
                      THEN AfterLoop(q)
                      ELSE LoopHead([q EXCEPT !.generateCount =
                                                  EscalatedGenerateCount(q.wordCount),
                                              !.attempt = @ + 1])]
    /\ UNCHANGED <<bf, added, lastContains, store, userCfg, delivered, faults, saves, web>>

\* sendWordsToUser: PushMessage of the formatted words (ok = FALSE: it failed)
SendWordsToUser(p, ok) ==
    /\ inv[p].pc = "push"
    /\ LET r == inv[p]
       IN  IF Len(r.finalWords) = 0
           THEN /\ inv' = [inv EXCEPT ![p] =
                              ReturnError(r, "Failed to send words to user")]
                /\ UNCHANGED <<delivered, faults>>
           ELSE IF ~ok
           THEN /\ inv' = [inv EXCEPT ![p] = PushFailed(r)]
                /\ faults' = faults \cup {"push"}
                /\ UNCHANGED delivered
           ELSE /\ inv' = [inv EXCEPT ![p] = [r EXCEPT !.pc = "addGet",
                                                       !.push = "ok"]]
                /\ delivered' = [delivered EXCEPT ![r.userID] =
                                    Append(@, [course |-> r.course, by |-> p, run |-> r.run,
                                               words |-> r.finalWords])]
                /\ UNCHANGED faults
    /\ UNCHANGED <<bf, added, lastContains, store, userCfg, saves, web>>

\* AddWordsToBloomFilter up to its save: GetBloomFilter and the Add of every
\* word (ok = FALSE: GetItem failed, which HandleWordPush only logs)
AddWordsLoad(p, ok) ==
    /\ inv[p].pc = "addGet"
    /\ LET r == inv[p]
           filter == GetBloomFilter(store[<<r.userID, r.course>>], r.userID)
       IN  IF ~ok
           THEN /\ inv' = [inv EXCEPT ![p] =
                              ReturnSuccess([r EXCEPT !.addErr = ErrGet])]
                /\ faults' = faults \cup {"store"}
           ELSE IF AddWordsPanics(filter)
           THEN /\ inv' = [inv EXCEPT ![p] = Panic([r EXCEPT !.filter = filter])]
                /\ UNCHANGED faults
           ELSE /\ inv' = [inv EXCEPT ![p] =
                              [r EXCEPT !.pc = "addSave", !.loadedAt = saves,
                                        !.filter = AddAll(filter, r.finalWords, 1)]]
                /\ UNCHANGED faults
    /\ UNCHANGED <<bf, added, lastContains, store, userCfg, delivered, saves, web>>

\* the SaveBloomFilter of AddWordsToBloomFilter (ok = FALSE: PutItem failed),
\* and the return of HandleWordPush
AddWordsSave(p, ok) ==
    /\ inv[p].pc = "addSave"
    /\ LET r == inv[p]
       IN  IF ok
           THEN /\ store' = SaveBloomFilter(store, r.filter, r.course)
                /\ saves' = saves + 1
                /\ inv' = [inv EXCEPT ![p] =
                              ReturnSuccess([r EXCEPT !.saved = TRUE,
                                                      !.raced = (saves # r.loadedAt)])]
                /\ UNCHANGED faults
           ELSE /\ faults' = faults \cup {"store"}
                /\ inv' = [inv EXCEPT ![p] =
                              ReturnSuccess([r EXCEPT !.addErr = ErrSave])]
                /\ UNCHANGED <<store, saves>>
    /\ UNCHANGED <<bf, added, lastContains, userCfg, delivered, web>>

(***************************************************************************)
(* One invocation of HandleWordPush for a user with a stored config, on a  *)
(* filter that is absent or holds the words of earlier pushes; every       *)
(* collaborator may fail.                                                  *)
(***************************************************************************)
StoredFilter(userID, seen) == AddAll(NewBloomFilter(userID, DefaultExpected), seen, 1)

SeenBefore == {<<>>, <<"a", "b">>, <<"a", "b", "c", "d", "e">>}

InitialItems(userID) ==
    {IF seen = <<>> THEN NoItem ELSE StoredFilter(userID, seen) : seen \in SeenBefore}

\* the score of the user (any positive score: no step of the push reads it)
Levels == {600}
SomeLevel == CHOOSE l \in Levels : TRUE

InitFilterIdle ==
    /\ web = WebIdle
    /\ bf = NoFilter
    /\ added = {}
    /\ lastContains = NoCall
    /\ delivered = [u \in Users |-> <<>>]
    /\ faults = {}
    /\ saves = 0

InitSupply ==
    /\ InitFilterIdle
    /\ \E item \in InitialItems("u1") : store = [k \in Users \X Courses |-> item]
    /\ \/ \E n \in 1..MaxDaily :
             userCfg = [u \in Users |->
                           [course |-> "toeic", level |-> SomeLevel, dailyWords |-> n,
                            displayName |-> "", pushTime |-> ""]]
       \/ userCfg = [u \in Users |-> NoItem]
    /\ inv = [p \in {1} |-> Idle]

\* one step of an invocation p that has begun: the generator returns a batch
\* of Batches, and each collaborator call succeeds or not as Oks allows
Continue(p, Batches, Oks) ==
    \/ \E batch \in Batches, ok \in Oks : GenerateWords(p, batch, ok)
    \/ \E ok \in Oks : FilterStep(p, ok)
    \/ AppendStep(p)
    \/ \E ok \in Oks : SendWordsToUser(p, ok)
    \/ \E ok \in Oks : AddWordsLoad(p, ok)
    \/ \E ok \in Oks : AddWordsSave(p, ok)

\* an invocation begins for a user of Users, or with no userId, and goes on
Step(p, Batches, Oks) ==
    \/ \E u \in Users \cup {""}, ok \in Oks : HandleWordPush(p, u, ok)
    \/ Continue(p, Batches, Oks)

\* the generator offers any list of at most MaxBatch of these words
SupplyWords == {"a", "b", "c", "d"}

NextSupply == \E p \in DOMAIN inv : Step(p, BoundedSeq(SupplyWords, MaxBatch), BOOLEAN)

SpecSupply == InitSupply /\ [][NextSupply]_vars

\* the filter an invocation found stored when it began, and what was novel then
FilterBefore(r) == GetBloomFilter(r.before, r.userID)
NovelOffered(r) == {w \in r.offered : ~Contains(FilterBefore(r), w)}

\* the filter now stored for the invocation's (user, course)
FilterNow(r) == GetBloomFilter(store[<<r.userID, r.course>>], r.userID)

\* the supply loop has returned a word list to HandleWordPush
Supplied(r) == r.pc \in {"push", "addGet", "addSave"} \/ r.status = "success"

(***************************************************************************)
(* C3.  Supply short-delivery: when all the generator ever offers in the   *)
(* attempts of one invocation is the same K distinct novel words, with     *)
(* 0 < K < desiredCount, the loop returns exactly those K words, each      *)
(* once, and no error (stated for the generators that repeat no word       *)
(* within a batch).                                                        *)
(***************************************************************************)
C3_ShortDelivery ==
    \A p \in DOMAIN inv :
        LET r == inv[p]
            K == Cardinality(NovelOffered(r))
        IN  /\ r.pc = "push" \/ r.err = ErrExhausted
            /\ r.doubled = {}
            /\ 0 < K /\ K < r.wordCount
            => /\ r.pc = "push"
               /\ Len(r.finalWords) = K
               /\ Range(r.finalWords) = NovelOffered(r)

(***************************************************************************)
(* C4.  As claimed: when the push of the words fails, the stored filter    *)
(* contains every word of the list that failed to deliver.                 *)
(***************************************************************************)
C4_RecordedThoughPushFailed ==
    \A p \in DOMAIN inv :
        LET r == inv[p]
        IN  r.pc = "done" /\ r.push = "failed"
            => \A w \in Range(r.finalWords) : Contains(FilterNow(r), w)

(***************************************************************************)
(* C4, amended.  When the push of the words fails, HandleWordPush returns  *)
(* status "error" without calling AddWordsToBloomFilter: the stored filter *)
(* is what it was when the invocation began.                               *)
(***************************************************************************)
C4_PushFailedNothingRecorded ==
    \A p \in DOMAIN inv :
        LET r == inv[p]
        IN  r.push = "failed"
            => /\ r.pc = "done"
               /\ r.status = "error"
               /\ ~r.saved
               /\ store[<<r.userID, r.course>>] = r.before

\* the push of two novel words failed
C4_Witness ==
    \E p \in DOMAIN inv :
        /\ inv[p].push = "failed"
        /\ Len(inv[p].finalWords) = 2
        /\ \A w \in Range(inv[p].finalWords) : ~Contains(FilterNow(inv[p]), w)

(***************************************************************************)
(* C5.  Supply termination: an invocation makes at most 5 generator calls  *)
(* whatever the generator returns and whatever the filter holds, and every *)
(* step takes it closer to its return: Rank falls with each step.          *)
(***************************************************************************)
Rank(r) ==
    CASE r.pc = "idle"     -> 3 * maxAttempts + 5
      [] r.pc = "generate" -> 3 * (maxAttempts - r.calls) + 4
      [] r.pc = "filter"   -> 3 * (maxAttempts - r.calls) + 6
      [] r.pc = "append"   -> 3 * (maxAttempts - r.calls) + 5
      [] r.pc = "push"     -> 3
      [] r.pc = "addGet"   -> 2
      [] r.pc = "addSave"  -> 1
      [] OTHER             -> 0

C5_SupplyTermination ==
    /\ [](\A p \in DOMAIN inv : inv[p].calls <= maxAttempts /\ Rank(inv[p]) >= 0)
    /\ [][\A p \in DOMAIN inv :
             inv'[p] # inv[p] => Rank(inv'[p]) < Rank(inv[p])]_vars

\* the loop returned a short list after its fifth generator call
C5_Witness ==
    \E p \in DOMAIN inv :
        /\ inv[p].pc = "push"
        /\ inv[p].calls = maxAttempts
        /\ Len(inv[p].finalWords) < inv[p].wordCount

(***************************************************************************)
(* C6.  Exhaustion: when every word generated in the 5 attempts tests as   *)
(* contained, the loop makes exactly 5 generator calls and then returns    *)
(* the failure; it returns that failure only with an empty list.           *)
(***************************************************************************)
C6_Exhaustion ==
    \A p \in DOMAIN inv :
        LET r == inv[p]
        IN  /\ r.err = ErrExhausted
               => /\ r.pc = "done" /\ r.status = "error"
                  /\ r.calls = maxAttempts
                  /\ r.finalWords = <<>>
                  /\ r.push = ""
            /\ NovelOffered(r) = {} /\ r.err \notin {ErrGenerator, ErrFilter}
               => /\ ~Supplied(r)
                  /\ r.calls = maxAttempts /\ r.pc \notin {"filter", "append"}
                     => r.err = ErrExhausted

\* five attempts generated words and every one of them was in the filter
C6_Witness ==
    \E p \in DOMAIN inv :
        /\ inv[p].err = ErrExhausted
        /\ inv[p].calls = maxAttempts
        /\ inv[p].offered # {}
        /\ \A w \in inv[p].offered : Contains(FilterBefore(inv[p]), w)

(***************************************************************************)
(* C9.  Duplicates from the generator: a novel word that one generated     *)
(* batch holds more than once is in the returned list at most once.        *)
(***************************************************************************)
C9_NoDuplicateFromBatch ==
    \A p \in DOMAIN inv :
        LET r == inv[p]
        IN  r.pc = "push" => \A w \in r.doubled : Count(r.finalWords, w) <= 1

(***************************************************************************)
(* The scenario of the supply loop: one invocation for a user whose        *)
(* dailyWords is 5, with a generator that returns the batches of the       *)
(* scenario, or one of a few others.                                       *)
(***************************************************************************)
ScenarioCount == 5

ScenarioBatches ==
    {<<>>, <<"a", "b", "c">>, <<"a", "d", "e">>, <<"d", "e">>, <<"b", "b">>}

InitScenario ==
    /\ InitFilterIdle
    /\ \E item \in InitialItems("u1") : store = [k \in Users \X Courses |-> item]
    /\ userCfg = [u \in Users |-> [course |-> "toeic", level |-> SomeLevel,
                                  dailyWords |-> ScenarioCount,
                                  displayName |-> "", pushTime |-> ""]]
    /\ inv = [p \in {1} |-> Idle]

NextScenario == \E p \in DOMAIN inv : Step(p, ScenarioBatches, BOOLEAN)

SpecScenario == InitScenario /\ [][NextScenario]_vars

(***************************************************************************)
(* C2.  Words accumulated in an earlier attempt count as seen when a later *)
(* attempt's batch is filtered: with desiredCount 5, no stored filter, a   *)
(* first batch [a,b,c] and a second batch [a,d,e], the second batch        *)
(* filters to [d,e] and the loop returns [a,b,c,d,e].                      *)
(***************************************************************************)
C2_EarlierAttemptsSeen ==
    \A p \in DOMAIN inv :
        LET r == inv[p]
        IN  /\ r.wordCount = ScenarioCount
            /\ r.before = NoItem
            /\ r.calls = 2
            /\ r.offered = {"a", "b", "c", "d", "e"}
            => /\ r.pc = "append" /\ r.finalWords = <<"a", "b", "c">>
                  /\ r.words = <<"a", "d", "e">>
                  => r.newWords = <<"d", "e">>
               /\ r.pc = "push" /\ SubSeq(r.finalWords, 1, 3) = <<"a", "b", "c">>
                  => r.finalWords = <<"a", "b", "c", "d", "e">>

(***************************************************************************)
(* A stored item whose byte array is not ceil(Size/8) long: one invocation *)
(* of HandleWordPush on a table that holds such an item.                   *)
(***************************************************************************)
ExpectedBytes(filter) == (filter.Size + 7) \div 8

\* the item of a filter, with a BitArray of n bytes
Resized(filter, n) ==
    [filter EXCEPT !.BitArray = [n |-> n, on |-> {b \in @.on : b[1] < n}]]

StoredLengths == {5, 512, 1024, 2048}

InitCorrupt ==
    /\ InitFilterIdle
    /\ \E n \in StoredLengths :
          store = [k \in Users \X Courses |->
                      Resized(StoredFilter("u1", <<"a", "b">>), n)]
    /\ \E n \in 1..MaxDaily :
          userCfg = [u \in Users |->
                        [course |-> "toeic", level |-> SomeLevel, dailyWords |-> n,
                         displayName |-> "", pushTime |-> ""]]
    /\ inv = [p \in {1} |-> Idle]

CorruptWords == {"a", "e"}

NextCorrupt == \E p \in DOMAIN inv : Step(p, BoundedSeq(CorruptWords, MaxBatch), BOOLEAN)

SpecCorrupt == InitCorrupt /\ [][NextCorrupt]_vars

(***************************************************************************)
(* C7.  A stored filter whose byte array is not ceil(Size/8) long is       *)
(* reported as an error by GetBloomFilter: no invocation holds such a      *)
(* filter for Contains or Add, and none ends in a panic.                   *)
(***************************************************************************)
C7_LengthMismatchIsError ==
    \A p \in DOMAIN inv :
        /\ inv[p].status # "panic"
        /\ inv[p].filter # NoFilter
           => inv[p].filter.BitArray.n = ExpectedBytes(inv[p].filter)

(***************************************************************************)
(* Invocations of HandleWordPush for one user, one after the other: an     *)
(* invocation begins when the one before it has returned.                  *)
(***************************************************************************)
InitSeq ==
    /\ InitFilterIdle
    /\ \E item \in InitialItems("u1") : store = [k \in Users \X Courses |-> item]
    /\ \E n \in 1..SeqDaily :
          userCfg = [u \in Users |->
                        [course |-> "toeic", level |-> SomeLevel, dailyWords |-> n,
                         displayName |-> "", pushTime |-> ""]]
    /\ inv = [p \in {1} |-> Idle]

SeqWords == {"a", "c", "d"}

\* the invocation has returned: the next one begins with fresh locals
NextRun(p) ==
    /\ inv[p].pc = "done"
    /\ inv[p].run < MaxRuns
    /\ inv' = [inv EXCEPT ![p] = [Idle EXCEPT !.run = inv[p].run + 1]]
    /\ UNCHANGED <<bf, added, lastContains, store, userCfg, delivered, faults, saves, web>>

NextSeq ==
    \E p \in DOMAIN inv :
        \/ Step(p, BoundedSeq(SeqWords, SeqBatch), BOOLEAN)
        \/ NextRun(p)

SpecSeq == InitSeq /\ [][NextSeq]_vars

\* the words of the i-th push to user u
PushedWords(u, i) == Range(delivered[u][i].words)

(***************************************************************************)
(* C8.  In a sequence of invocations for the same (user, course) that do   *)
(* not overlap and in which every table read and write succeeds, no word   *)
(* an earlier invocation delivered is delivered by a later one.            *)
(***************************************************************************)
C8_NoRedelivery ==
    "store" \notin faults =>
        \A u \in Users : \A i, j \in DOMAIN delivered[u] :
            /\ i < j
            /\ delivered[u][i].course = delivered[u][j].course
            => PushedWords(u, i) \cap PushedWords(u, j) = {}

\* a later invocation was offered a word an earlier one had delivered, and
\* delivered other words
C8_Witness ==
    /\ "store" \notin faults
    /\ \E u \in Users :
          /\ Len(delivered[u]) = 2
          /\ \E p \in DOMAIN inv :
                /\ inv[p].run = delivered[u][2].run
                /\ inv[p].pc = "done"
                /\ inv[p].offered \cap PushedWords(u, 1) # {}

(***************************************************************************)
(* Two invocations of HandleWordPush for the same user at the same time:   *)
(* their steps interleave in any order.  No collaborator fails.            *)
(***************************************************************************)
Concurrent == {1, 2}

InitConc ==
    /\ InitFilterIdle
    /\ store = [k \in Users \X Courses |-> NoItem]
    /\ \E n \in 1..SeqDaily :
          userCfg = [u \in Users |->
                        [course |-> "toeic", level |-> SomeLevel, dailyWords |-> n,
                         displayName |-> "", pushTime |-> ""]]
    /\ inv = [p \in Concurrent |-> Idle]

ConcWords == {"a", "c"}

NextConc == \E p \in DOMAIN inv : Step(p, BoundedSeq(ConcWords, SeqBatch), {TRUE})

SpecConc == InitConc /\ [][NextConc]_vars

\* every word of every push of an invocation that has saved is in the stored filter
AllRecorded ==
    \A u \in Users : \A i \in DOMAIN delivered[u] :
        LET r == inv[delivered[u][i].by]
        IN  r.pc = "done" /\ r.saved
            => \A w \in PushedWords(u, i) : Contains(FilterNow(r), w)

(***************************************************************************)
(* C10.  Two concurrent invocations for the same (user, course) can lose   *)
(* an update, and only by the race of load and save: as long as no         *)
(* invocation has saved over a write made since its load, the stored       *)
(* filter contains every word of every invocation that has saved.          *)
(***************************************************************************)
C10_LostUpdateOnlyByRace ==
    (\A p \in DOMAIN inv : ~inv[p].raced) => AllRecorded

\* both invocations have returned success and saved, and the stored filter
\* lacks a word that one of them delivered
C10_Witness ==
    /\ \A p \in DOMAIN inv :
          inv[p].pc = "done" /\ inv[p].status = "success" /\ inv[p].saved
    /\ faults = {}
    /\ ~AllRecorded

(***************************************************************************)
(* Two invocations of HandleWordPush at the same time for two different    *)
(* users, each with a config and a filter item of their own: their steps   *)
(* interleave in any order, and every collaborator may fail.               *)
(***************************************************************************)
PairUsers == {"u1", "u2"}

\* the user named in the request of invocation p
RequestUser(p) == IF p = 1 THEN "u1" ELSE "u2"

\* the item stored for each user before the invocations
PairItem(u) == IF u = "u1" THEN NoItem ELSE StoredFilter(u, <<"a">>)

InitPair ==
    /\ web = WebIdle
    /\ bf = NoFilter
    /\ added = {}
    /\ lastContains = NoCall
    /\ delivered = [u \in PairUsers |-> <<>>]
    /\ faults = {}
    /\ saves = 0
    /\ store = [k \in PairUsers \X Courses |-> PairItem(k[1])]
    /\ \E n \in 1..SeqDaily :
          userCfg = [u \in PairUsers |->
                        [course |-> "toeic", level |-> SomeLevel, dailyWords |-> n,
                         displayName |-> "", pushTime |-> ""]]
    /\ inv = [p \in Concurrent |-> Idle]

NextPair ==
    \E p \in DOMAIN inv :
        \/ \E ok \in BOOLEAN : HandleWordPush(p, RequestUser(p), ok)
        \/ Continue(p, BoundedSeq(ConcWords, SeqBatch), BOOLEAN)

SpecPair == InitPair /\ [][NextPair]_vars

\* what a user's invocation leaves when it runs alone, from its own inputs:
\* the filter it reads is the item stored for its user before it began, the
\* stored item is that one until its save and its own words added to it
\* after, and the delivered list is its own push
AsIfAlone(p) ==
    LET r == inv[p]
        u == RequestUser(p)
        filter0 == GetBloomFilter(PairItem(u), u)
    IN  /\ r.filter # NoFilter /\ r.pc = "append"
           => r.filter = filter0 /\ r.newWords = FilterWords(filter0, r.words)
        /\ r.filter # NoFilter /\ r.pc = "addSave"
           => r.filter = AddAll(filter0, r.finalWords, 1)
        /\ \A c \in Courses :
              store[<<u, c>>] = IF r.saved /\ r.course = c
                                THEN AddAll(filter0, r.finalWords, 1)
                                ELSE PairItem(u)
        /\ delivered[u] = IF r.push = "ok"
                          THEN <<[course |-> r.course, by |-> p, run |-> r.run,
                                  words |-> r.finalWords]>>
                          ELSE <<>>

(***************************************************************************)
(* C11.  Invocations for different users share no mutable state: under     *)
(* every interleaving of two invocations for two different users, each     *)
(* user's stored filter and delivered list are what that user's own        *)
(* invocation makes of them alone, and a step of one invocation changes    *)
(* neither the other invocation nor the other user's filter or list.       *)
(***************************************************************************)
C11_DifferentUsersIndependent ==
    /\ [](\A p \in DOMAIN inv : AsIfAlone(p))
    /\ [][\A p, q \in DOMAIN inv :
             inv'[p] # inv[p] /\ q # p
             => /\ inv'[q] = inv[q]
                /\ delivered'[RequestUser(q)] = delivered[RequestUser(q)]
                /\ \A c \in Courses :
                      store'[<<RequestUser(q), c>>] = store[<<RequestUser(q), c>>]]_vars

\* both invocations delivered and saved, and one saved after the other had
\* written the table since its load
C11_Witness ==
    /\ \A p \in DOMAIN inv :
          inv[p].pc = "done" /\ inv[p].saved /\ inv[p].push = "ok"
    /\ \E p \in DOMAIN inv : inv[p].raced
    /\ store[<<"u1", "toeic">>] # store[<<"u2", "toeic">>]

(***************************************************************************)
(* The operations on a filter, one after the other: Add and Contains on a  *)
(* filter in memory, and the repository's AddWordsToBloomFilter and        *)
(* FilterWords on the filter stored for a (user, course).  A repository    *)
(* call runs from its GetItem to its return before the next one begins.    *)
(***************************************************************************)
\* AddWordsToBloomFilter: GetBloomFilter, Add of every word, SaveBloomFilter
\* (okGet, okPut = FALSE: the GetItem, the PutItem failed)
AddWordsToBloomFilter(userID, course, words, okGet, okPut) ==
    /\ saves < MaxRuns
    /\ IF okGet /\ okPut
       THEN /\ store' = SaveBloomFilter(store,
                           AddAll(GetBloomFilter(store[<<userID, course>>], userID),
                                  words, 1),
                           course)
            /\ saves' = saves + 1
            /\ UNCHANGED faults
       ELSE /\ faults' = faults \cup {"store"}
            /\ UNCHANGED <<store, saves>>
    /\ UNCHANGED <<bf, added, lastContains, userCfg, inv, delivered, web>>

\* AddWordToBloomFilter: GetBloomFilter, Add of the word, SaveBloomFilter
AddWordToBloomFilter(userID, word, course, okGet, okPut) ==
    /\ saves < MaxRuns
    /\ IF okGet /\ okPut
       THEN /\ store' = SaveBloomFilter(store,
                           BloomAdd(GetBloomFilter(store[<<userID, course>>], userID),
                                    word),
                           course)
            /\ saves' = saves + 1
            /\ UNCHANGED faults
       ELSE /\ faults' = faults \cup {"store"}
            /\ UNCHANGED <<store, saves>>
    /\ UNCHANGED <<bf, added, lastContains, userCfg, inv, delivered, web>>

\* FilterWords: GetBloomFilter and Contains of every word; lastContains
\* records the call and the words returned
FilterWordsCall(userID, course, words, ok) ==
    /\ IF ok
       THEN /\ lastContains' =
                  <<words,
                    FilterWords(GetBloomFilter(store[<<userID, course>>], userID), words),
                    TRUE>>
            /\ UNCHANGED faults
       ELSE /\ faults' = faults \cup {"store"}
            /\ UNCHANGED lastContains
    /\ UNCHANGED <<bf, added, store, userCfg, inv, delivered, saves, web>>

InitOps ==
    /\ web = WebIdle
    /\ bf = NewBloomFilter("u1", DefaultExpected)
    /\ added = {}
    /\ lastContains = NoCall
    /\ \E item \in InitialItems("u1") : store = [k \in Users \X Courses |-> item]
    /\ userCfg = [u \in Users |-> NoItem]
    /\ inv = <<>>
    /\ delivered = [u \in Users |-> <<>>]
    /\ faults = {}
    /\ saves = 0

NextOps ==
    \/ \E w \in ConcWords : Add(w)
    \/ \E w \in ConcWords : ContainsCall(w)
    \/ \E u \in Users, c \in Courses, words \in BoundedSeq(SeqWords, SeqBatch),
          okGet, okPut \in BOOLEAN : AddWordsToBloomFilter(u, c, words, okGet, okPut)
    \/ \E u \in Users, c \in Courses, words \in BoundedSeq(SeqWords, SeqBatch),
          ok \in BOOLEAN : FilterWordsCall(u, c, words, ok)
    \/ \E u \in Users, c \in Courses, w \in SeqWords,
          okGet, okPut \in BOOLEAN : AddWordToBloomFilter(u, w, c, okGet, okPut)

SpecOps == InitOps /\ [][NextOps]_vars

\* the bits that are 1 in a stored item: none when there is no item
SetBits(item) == GetBloomFilter(item, "").BitArray.on

(***************************************************************************)
(* C12.  Monotonicity: across any sequence of Add, Contains,               *)
(* AddWordsToBloomFilter and FilterWords on one filter, no bit goes from 1 *)
(* to 0, so the number of set bits never decreases.                        *)
(***************************************************************************)
C12_Monotonicity ==
    [][/\ bf.BitArray.on \subseteq bf'.BitArray.on
       /\ Cardinality(bf.BitArray.on) <= Cardinality(bf'.BitArray.on)
       /\ \A k \in DOMAIN store :
             /\ SetBits(store[k]) \subseteq SetBits(store'[k])
             /\ Cardinality(SetBits(store[k])) <= Cardinality(SetBits(store'[k]))]_vars

\* words were added to a filter in memory and to a stored filter that held
\* bits already, and both were read since
C12_Witness ==
    /\ Cardinality(added) = 2
    /\ saves = 2
    /\ \E k \in DOMAIN store :
          /\ Contains(GetBloomFilter(store[k], k[1]), "a")
          /\ Contains(GetBloomFilter(store[k], k[1]), "b")
          /\ Contains(GetBloomFilter(store[k], k[1]), "c")
          /\ Contains(GetBloomFilter(store[k], k[1]), "d")
    /\ Len(lastContains[1]) = 1

\* the filter in memory, and the filters a stored copy of it with a byte
\* array of another length unmarshals to
FilterStates == {bf} \cup {Resized(bf, n) : n \in StoredLengths}

(***************************************************************************)
(* C13.  Idempotence of Add: for every filter state and every word w,      *)
(* Add(w) followed by Add(w) leaves a bit array identical to the one after *)
(* a single Add(w); an Add of a word added before changes no bit.          *)
(***************************************************************************)
C13_AddIdempotent ==
    /\ [](\A f \in FilterStates : \A w \in Words :
             BloomAdd(BloomAdd(f, w), w).BitArray = BloomAdd(f, w).BitArray)
    /\ [][\A w \in added : bf' = BloomAdd(bf, w) => bf'.BitArray = bf.BitArray]_vars

\* "a" and another word were added, a further Add("a") changes nothing, and
\* there is a word whose first Add sets bits and whose second sets none
C13_Witness ==
    /\ "a" \in added
    /\ Cardinality(added) >= 2
    /\ BloomAdd(bf, "a") = bf
    /\ \E w \in Words \ added :
          /\ BloomAdd(bf, w).BitArray # bf.BitArray
          /\ BloomAdd(BloomAdd(bf, w), w) = BloomAdd(bf, w)

\* the positions of words that Contains reports as not in the filter
NovelAt(filter, words) == {i \in 1..Len(words) : ~Contains(filter, words[i])}

\* the j-th smallest position of a set of positions
NthOf(S, j) == CHOOSE i \in S : Cardinality({k \in S : k <= i}) = j

(***************************************************************************)
(* C14.  FilterWords returns exactly the input words for which Contains is *)
(* false, in their original relative order: the j-th word returned is the  *)
(* input word at the j-th position where Contains is false, so nothing is  *)
(* added, dropped, reordered or merged.                                    *)
(***************************************************************************)
C14_FilterWordsStable ==
    \A p \in DOMAIN inv :
        LET r == inv[p]
            S == NovelAt(r.filter, r.words)
        IN  r.pc = "append"
            => /\ Len(r.newWords) = Cardinality(S)
               /\ \A j \in 1..Len(r.newWords) : r.newWords[j] = r.words[NthOf(S, j)]

\* FilterWords was given a contained word and then a novel one, and another
\* call gave two novel words back in the order they came
C14_Witness ==
    \E p \in DOMAIN inv :
        LET r == inv[p]
        IN  /\ r.pc = "append"
            /\ Len(r.words) = 2
            /\ Contains(r.filter, r.words[1])
            /\ r.newWords = <<r.words[2]>>
            /\ r.calls = 2
            /\ r.finalWords = <<"d", "c">>

\* every one of the HashCount probe positions of the word is set
AllProbesSet(f, word) ==
    \A i \in 1..f.HashCount : BitOf(f, getHashes(f, word)[i]) \in f.BitArray.on

\* the filter in memory, and that filter with any one of its set bits cleared
NearFilters == {bf} \cup {[bf EXCEPT !.BitArray.on = @ \ {b}] : b \in bf.BitArray.on}

(***************************************************************************)
(* C15.  Contains(w) returns true if and only if every one of the k probe  *)
(* positions of w is set in the bit array, for the value it computes on    *)
(* any array and for the value each call returns; it returns false for     *)
(* every word on a filter fresh from NewBloomFilter.                       *)
(***************************************************************************)
C15_ContainsIffAllSet ==
    /\ [](\A f \in NearFilters : \A w \in Words : Contains(f, w) <=> AllProbesSet(f, w))
    /\ [](bf.BitArray.on = {} => \A w \in Words : ~Contains(bf, w))
    /\ [][lastContains' # lastContains
          => lastContains'[2] = AllProbesSet(bf, lastContains'[1])]_vars

\* Contains returned true for an added word, a word not added tests false,
\* and with one bit cleared an added word tests false as well
C15_Witness ==
    /\ lastContains = <<"b", TRUE, TRUE>>
    /\ "a" \notin added /\ ~Contains(bf, "a")
    /\ \E f \in NearFilters : ~Contains(f, "b") /\ f # bf

Min(a, b) == IF a <= b THEN a ELSE b

\* the first n elements of a sequence, all of it when it is shorter
Prefix(seq, n) == SubSeq(seq, 1, Min(n, Len(seq)))

\* the filtered batches of the attempts the loop has accumulated so far, one
\* after the other: in "append" the last batch is not accumulated yet
Accumulated(r) ==
    IF r.pc = "append"
    THEN SubSeq(r.survivors, 1, Len(r.survivors) - Len(r.newWords))
    ELSE r.survivors

(***************************************************************************)
(* C16.  The supply loop's result is the first min(desiredCount, total)    *)
(* elements of the concatenation, in attempt order, of each attempt's      *)
(* filtered batch: the list never exceeds desiredCount, it has exactly     *)
(* desiredCount words when the loop ends because enough were collected,    *)
(* and the generator's order is kept.                                      *)
(***************************************************************************)
C16_ResultIsPrefix ==
    \A p \in DOMAIN inv :
        LET r == inv[p]
        IN  /\ Len(r.finalWords) <= r.wordCount
            /\ r.finalWords = Prefix(Accumulated(r), r.wordCount)
            /\ r.pc = "push"
               => /\ r.finalWords = Prefix(r.survivors, r.wordCount)
                  /\ Len(r.survivors) >= r.wordCount => Len(r.finalWords) = r.wordCount
                  /\ r.calls < maxAttempts => Len(r.finalWords) = r.wordCount

\* the loop returned after its second attempt, whose filtered batch had more
\* words than were missing, in an order that is not the alphabet's
C16_Witness ==
    \E p \in DOMAIN inv :
        LET r == inv[p]
        IN  /\ r.pc = "push"
            /\ r.calls = 2
            /\ r.wordCount = 3
            /\ r.survivors = <<"d", "c", "b", "a">>
            /\ r.finalWords = <<"d", "c", "b">>

(***************************************************************************)
(* C17.  Batch escalation and sequencing: the first generator call of an   *)
(* invocation asks for desiredCount*3 words and every later one for        *)
(* desiredCount*5; a generator call is made only when every earlier        *)
(* attempt has been filtered and accumulated and the list is still shorter *)
(* than desiredCount, so no generator call follows the attempt that        *)
(* reaches desiredCount.                                                   *)
(***************************************************************************)
C17_EscalationAndSequencing ==
    /\ [](\A p \in DOMAIN inv :
             LET r == inv[p]
             IN  /\ Len(r.asked) = r.calls
                 /\ \A i \in 1..Len(r.asked) :
                       r.asked[i] = IF i = 1 THEN r.wordCount * 3 ELSE r.wordCount * 5
                 /\ r.pc = "generate"
                    => /\ Len(r.finalWords) < r.wordCount
                       /\ r.finalWords = r.survivors
                       /\ r.words = <<>> /\ r.newWords = <<>>
                       /\ r.attempt = r.calls + 1)
    /\ [][\A p \in DOMAIN inv :
             /\ inv'[p].calls # inv[p].calls
                => /\ inv[p].pc = "generate"
                   /\ inv'[p].calls = inv[p].calls + 1
                   /\ Len(inv[p].finalWords) < inv[p].wordCount
             /\ inv[p].wordCount > 0 /\ Len(inv[p].finalWords) >= inv[p].wordCount
                => inv'[p].calls = inv[p].calls]_vars

\* three generator calls were made, the third one filled the list, and the
\* invocation went on to its return
C17_Witness ==
    \E p \in DOMAIN inv :
        LET r == inv[p]
        IN  /\ r.pc = "done" /\ r.status = "success"
            /\ r.wordCount = 2
            /\ r.asked = <<6, 10, 10>>
            /\ Len(r.finalWords) = 2

\* the invocation has returned status "error" for a failed supply: it made
\* no push and no save, its response counts no words, its user has been
\* pushed nothing and the stored filter is what the invocation found
FailedWithoutTrace(r) ==
    /\ r.pc = "done" /\ r.status = "error"
    /\ r.message = "Failed to generate words"
    /\ r.push = "" /\ r.sent = 0 /\ ~r.saved
    /\ delivered[r.userID] = <<>>
    /\ store[<<r.userID, r.course>>] = r.before

(***************************************************************************)
(* C18.  Generator failure is fatal at any attempt: when the generator     *)
(* call of attempt n fails, the supply loop returns an error and no words, *)
(* even when earlier attempts had accumulated novel words; the failed call *)
(* is the invocation's last step, so no further generator call is made,    *)
(* nothing is pushed to the user and the stored filter is unchanged.       *)
(***************************************************************************)
C18_GeneratorFailureFatal ==
    /\ [](\A p \in DOMAIN inv :
             inv[p].err = ErrGenerator => FailedWithoutTrace(inv[p]))
    /\ [][\A p \in DOMAIN inv :
             /\ inv[p].err = ErrGenerator => inv'[p] = inv[p]
             /\ "generator" \in faults' \ faults
                => inv'[p].err = ErrGenerator /\ inv'[p].calls = inv[p].calls + 1]_vars

\* the third generator call failed after two attempts had accumulated words
C18_Witness ==
    \E p \in DOMAIN inv :
        LET r == inv[p]
        IN  /\ r.err = ErrGenerator
            /\ r.calls = 3
            /\ Len(r.finalWords) = 2
            /\ r.wordCount = 3

(***************************************************************************)
(* C19.  Filter-store failure while filtering is fatal: when the load of   *)
(* the filter fails during FilterWords in any attempt, the supply loop     *)
(* returns an error and no words, the invocation makes no further          *)
(* generator call, and HandleWordPush pushes nothing.                      *)
(***************************************************************************)
C19_FilterFailureFatal ==
    /\ [](\A p \in DOMAIN inv :
             inv[p].err = ErrFilter => FailedWithoutTrace(inv[p]))
    /\ [][\A p \in DOMAIN inv :
             /\ inv[p].err = ErrFilter
                => inv'[p].calls = inv[p].calls /\ delivered' = delivered
             /\ inv[p].pc = "filter" /\ "store" \in faults'
                => /\ inv'[p].err = ErrFilter
                   /\ inv'[p].calls = inv[p].calls]_vars

\* the filter load of the second attempt failed after the first attempt had
\* accumulated a word
C19_Witness ==
    \E p \in DOMAIN inv :
        LET r == inv[p]
        IN  /\ r.err = ErrFilter
            /\ r.calls = 2
            /\ Len(r.finalWords) = 1
            /\ r.wordCount = 3

\* the supply loop returned fewer words than desiredCount, and at least one
ShortSupply(r) ==
    /\ Supplied(r)
    /\ 0 < Len(r.finalWords) /\ Len(r.finalWords) < r.wordCount

\* the bits of a filter to which exactly the given words were added
BitsWith(filter, words) ==
    filter.BitArray.on \cup UNION {AddBits(filter, w) : w \in Range(words)}

(***************************************************************************)
(* C20.  Short delivery is carried through by the caller: when the supply  *)
(* loop returns K words with 0 < K < desiredCount, HandleWordPush pushes   *)
(* exactly those K words, then adds exactly those K words to the filter,   *)
(* and returns status success with wordCount K (when the push, the load    *)
(* and the save succeed).                                                  *)
(***************************************************************************)
C20_ShortDeliveryCarried ==
    \A p \in DOMAIN inv :
        LET r == inv[p]
        IN  ShortSupply(r)
            => /\ r.push = "ok"
                  => delivered[r.userID] =
                        <<[course |-> r.course, by |-> p, run |-> r.run,
                           words |-> r.finalWords]>>
               /\ r.pc \in {"addGet", "addSave"} => r.push = "ok" /\ ~r.saved
               /\ r.saved
                  => /\ r.push = "ok"
                     /\ FilterNow(r).BitArray.on = BitsWith(FilterBefore(r), r.finalWords)
                     /\ FilterNow(r).UserID = r.userID
               /\ r.status = "success" => r.sent = Len(r.finalWords) /\ r.push = "ok"
               /\ r.pc = "done" /\ faults \cap {"push", "store"} = {}
                  => r.status = "success" /\ r.saved

\* after five attempts the loop returned 2 of the 3 words asked for, and the
\* invocation pushed them, saved the filter and returned
C20_Witness ==
    \E p \in DOMAIN inv :
        LET r == inv[p]
        IN  /\ r.pc = "done" /\ r.status = "success"
            /\ r.wordCount = 3 /\ r.calls = maxAttempts
            /\ r.sent = 2 /\ r.saved
            /\ faults = {}
            /\ r.before # NoItem

\* the position in the bit array of <<byteIndex, bitIndex>>
PositionOf(b) == b[1] * 8 + b[2]

(***************************************************************************)
(* C21.  A filter from NewBloomFilter has Size 8192, HashCount 5 and an    *)
(* all-zero bit array of 1024 bytes whatever expectedElements is passed;   *)
(* after any sequence of Add calls Size and HashCount are unchanged,       *)
(* len(BitArray) = ceil(Size/8), and every bit Add has set lies at a       *)
(* position in [0, Size).                                                  *)
(***************************************************************************)
C21_FilterParameters ==
    /\ \A n \in ExpectedElements :
          LET f == NewBloomFilter("u1", n)
          IN  /\ f.Size = 8192 /\ f.HashCount = 5
              /\ f.BitArray = [n |-> 1024, on |-> {}]
    /\ added = {} => bf.BitArray.on = {}
    /\ bf.Size = 8192 /\ bf.HashCount = 5
    /\ bf.BitArray.n * 8 >= bf.Size /\ (bf.BitArray.n - 1) * 8 < bf.Size
    /\ \A b \in bf.BitArray.on :
          /\ b[2] \in 0..7
          /\ 0 <= PositionOf(b) /\ PositionOf(b) < bf.Size

\* four words were added, and they set bits beyond the first 128 bytes
C21_Witness ==
    /\ Cardinality(added) = 4
    /\ Cardinality(bf.BitArray.on) > 15
    /\ \E b \in bf.BitArray.on : PositionOf(b) >= 1024

\* the invocation's AddWordsToBloomFilter has returned
AddReturned(r) == r.saved \/ r.addErr # ""

(***************************************************************************)
(* C22.  AddWordsToBloomFilter persists the whole mutation or nothing:     *)
(* when it succeeds, the stored bit array is the previously stored one (an *)
(* all-zero one if there was none) with the probe bits of every listed     *)
(* word set, so a later FilterWords returns none of those words; when the  *)
(* load or the save fails, it returns an error and the stored filter is    *)
(* unchanged.                                                              *)
(***************************************************************************)
C22_AddWordsAllOrNothing ==
    \A p \in DOMAIN inv :
        LET r == inv[p]
        IN  /\ r.saved
               => /\ r.addErr = ""
                  /\ FilterNow(r).BitArray.on = BitsWith(FilterBefore(r), r.finalWords)
                  /\ r.before = NoItem
                     => FilterNow(r).BitArray.on =
                           UNION {AddBits(NewBloomFilter(r.userID, DefaultExpected), w) :
                                     w \in Range(r.finalWords)}
                  /\ FilterWords(FilterNow(r), r.finalWords) = <<>>
            /\ r.addErr # ""
               => /\ r.addErr \in {ErrGet, ErrSave}
                  /\ ~r.saved
                  /\ store[<<r.userID, r.course>>] = r.before
            /\ r.pc = "done" /\ r.push = "ok" => AddReturned(r)

\* one call added a list of three words, one of them twice, to a stored
\* filter that held others
C22_Witness ==
    \E p \in DOMAIN inv :
        LET r == inv[p]
        IN  /\ r.saved
            /\ r.before # NoItem
            /\ Len(r.finalWords) = 3
            /\ Cardinality(Range(r.finalWords)) = 2

\* no item was stored and the save of two words failed
C22_WitnessFailed ==
    \E p \in DOMAIN inv :
        /\ inv[p].addErr = ErrSave
        /\ inv[p].before = NoItem
        /\ Len(inv[p].finalWords) = 2

(***************************************************************************)
(* The repository on a (user, course) that has no stored filter yet:       *)
(* FilterWords, AddWordToBloomFilter and AddWordsToBloomFilter calls, one  *)
(* after the other, each free to fail.                                     *)
(***************************************************************************)
InitLazy ==
    /\ InitFilterIdle
    /\ store = [k \in Users \X Courses |-> NoItem]
    /\ userCfg = [u \in Users |-> NoItem]
    /\ inv = <<>>

LazyWords == {"a", "b", "c", "d"}

NextLazy ==
    \/ \E u \in Users, c \in Courses, words \in BoundedSeq(LazyWords, MaxBatch),
          ok \in BOOLEAN : FilterWordsCall(u, c, words, ok)
    \/ \E u \in Users, c \in Courses, w \in LazyWords,
          okGet, okPut \in BOOLEAN : AddWordToBloomFilter(u, w, c, okGet, okPut)
    \/ \E u \in Users, c \in Courses, words \in BoundedSeq(LazyWords, SeqBatch),
          okGet, okPut \in BOOLEAN : AddWordsToBloomFilter(u, c, words, okGet, okPut)

SpecLazy == InitLazy /\ [][NextLazy]_vars

(***************************************************************************)
(* C23.  Lookup of a (user, course) with no stored filter yields a fresh   *)
(* empty filter, so FilterWords returns every input word as novel;         *)
(* GetBloomFilter and FilterWords never write to the store, so the pair    *)
(* has no stored filter until the first AddWordToBloomFilter or            *)
(* AddWordsToBloomFilter succeeds.                                         *)
(***************************************************************************)
C23_LazyCreationNoWrite ==
    /\ [](\A k \in DOMAIN store :
             /\ store[k] = NoItem
                => /\ GetBloomFilter(store[k], k[1]).BitArray.on = {}
                   /\ GetBloomFilter(store[k], k[1]).UserID = k[1]
                   /\ lastContains[3] => lastContains[2] = lastContains[1]
             /\ saves = 0 => store[k] = NoItem)
    /\ [][\A k \in DOMAIN store :
             store'[k] # store[k] => saves' = saves + 1 /\ faults' = faults]_vars

\* FilterWords was called with two words, before and after failed adds, and
\* gave both back; nothing is stored yet
C23_Witness ==
    /\ lastContains[3]
    /\ Len(lastContains[1]) = 2
    /\ lastContains[2] = lastContains[1]
    /\ "store" \in faults
    /\ \A k \in DOMAIN store : store[k] = NoItem

(***************************************************************************)
(* The webhook handler of services/public/func/language-handler: the       *)
(* follow event and the text messages of one user, one event at a time.    *)
(* Every table call and every schedule call may fail.  An immediate push   *)
(* dispatched with "go" runs at any later time, or never.                  *)
(***************************************************************************)
WebUser == "u1"

\* the display name in the LINE profile of the user
ProfileName == "Ann"

\* a nil *models.UserConfig
NilConfig == [nil |-> TRUE]

\* EventHandler's GetUserConfig: nil when the call fails or finds no item
LookupConfig(ok) ==
    IF ~ok \/ userCfg[WebUser] = NoItem THEN NilConfig
    ELSE GetUserConfig(userCfg[WebUser], WebUser)

\* an event handled: what the last event left is cleared
Handled(w, event, reply) ==
    [w EXCEPT !.seq = @ + 1, !.event = event, !.reply = reply,
              !.scoreInput = "", !.setup = ""]

\* a nil pointer dereference: the process ends, and its memory with it
WebPanic(w, event) ==
    [Handled(w, event, "") EXCEPT !.panicked = TRUE, !.temp = 0, !.pending = 0]

\* the outcomes of scheduleWordPush: done, failed before the old schedule
\* was deleted, failed after
ScheduleOutcomes == {"ok", "deleteFailed", "createFailed"}

\* setupUserPushSchedule with a fault: the push is dispatched first
SetupUserPushScheduleEager(w, outcome) ==
    IF outcome = "ok"
    THEN [w EXCEPT !.schedule = TRUE, !.setup = "ok", !.pending = @ + 1]
    ELSE [w EXCEPT !.setup = "error", !.pending = @ + 1,
                   !.schedule = IF outcome = "createFailed" THEN FALSE ELSE @]

\* setupUserPushSchedule: scheduleWordPush, and on success "go
\* triggerImmediateWordPush" and return nil
SetupUserPushSchedule(w, outcome) ==
    IF outcome = "ok"
    THEN [w EXCEPT !.schedule = TRUE, !.setup = "ok", !.pending = @ + 1]
    ELSE [w EXCEPT !.setup = "error",
                   !.schedule = IF outcome = "createFailed" THEN FALSE ELSE @]

\* the reply after setupUserPushSchedule
SetupReply(w) ==
    [w EXCEPT !.reply = IF w.setup = "ok" THEN "settingsDone" ELSE "scheduleFailed"]

\* handleUserFollow: GetProfile, the first SaveUserConfig, the greeting
FollowEvent(okProfile, okSave) ==
    /\ web.seq < MaxEvents
    /\ web' = Handled(web, "follow", "greeting")
    /\ IF okProfile /\ okSave
       THEN /\ userCfg' = SaveUserConfig(userCfg, WebUser, ProfileName, "", 0, 0, "")
            /\ UNCHANGED faults
       ELSE /\ faults' = faults \cup {IF okProfile THEN "config" ELSE "profile"}
            /\ UNCHANGED userCfg
    /\ UNCHANGED pushVars

\* the text "我對多益有興趣" or "我對雅思有興趣": handleCourseInterest with
\* userConfig.DisplayName
CourseInterest(course, okGet, okSave) ==
    /\ web.seq < MaxEvents
    /\ LET userConfig == LookupConfig(okGet)
       IN  IF userConfig = NilConfig
           THEN /\ web' = WebPanic(web, "interest")
                /\ faults' = faults \cup (IF okGet THEN {} ELSE {"config"})
                /\ UNCHANGED userCfg
           ELSE IF ~okSave
           THEN /\ web' = [Handled(web, "interest", "error") EXCEPT !.accepted = FALSE]
                /\ faults' = faults \cup {"config"}
                /\ UNCHANGED userCfg
           ELSE /\ web' = [Handled(web, "interest", "askScore") EXCEPT !.accepted = FALSE]
                /\ userCfg' = SaveUserConfig(userCfg, WebUser, userConfig.DisplayName,
                                             course, 0, 0, "")
                /\ UNCHANGED faults
    /\ UNCHANGED pushVars

\* the score handleScoreInput reads from a text of digits: IELTS scores are
\* kept times ten
ParsedScore(course, number) == IF course = "ielts" THEN number * 10 ELSE number

ScoreIsValid(course, score) ==
    IF course = "toeic" THEN score >= 0 /\ score <= 990
    ELSE score >= 0 /\ score <= 90

\* a text of digits: the default branch of the switch, where
\* handlePushSettingsResponse returns false and handleScoreInput is called
\* with userConfig.DisplayName; when it returns false the text is translated
NumberText(number, okGet, okGet2, okSave) ==
    /\ web.seq < MaxEvents
    /\ LET userConfig == LookupConfig(okGet)
           config == LookupConfig(okGet2)
           score == ParsedScore(config.Course, number)
       IN  IF userConfig = NilConfig
           THEN /\ web' = WebPanic(web, "number")
                /\ faults' = faults \cup (IF okGet THEN {} ELSE {"config"})
                /\ UNCHANGED userCfg
           ELSE IF config = NilConfig \/ config.Level # 0
           THEN /\ web' = [Handled(web, "number", "translation") EXCEPT
                              !.scoreInput = "false"]
                /\ faults' = faults \cup (IF okGet2 THEN {} ELSE {"config"})
                /\ UNCHANGED userCfg
           ELSE IF ~ScoreIsValid(config.Course, score)
           THEN /\ web' = [Handled(web, "number", "scoreOutOfRange") EXCEPT
                              !.scoreInput = "true"]
                /\ UNCHANGED <<userCfg, faults>>
           ELSE IF ~okSave
           THEN /\ web' = [Handled(web, "number", "error") EXCEPT
                              !.scoreInput = "true"]
                /\ faults' = faults \cup {"config"}
                /\ UNCHANGED userCfg
           ELSE /\ web' = [Handled(web, "number", "scoreSet") EXCEPT
                              !.scoreInput = "true", !.accepted = TRUE]
                /\ userCfg' = SaveUserConfig(userCfg, WebUser, userConfig.DisplayName,
                                             config.Course, score, 0, "")
                /\ UNCHANGED faults
    /\ UNCHANGED pushVars

\* the text "/使用預設設定": handleSkipPushSettings
SkipPushSettings(okGet, okSave, outcome) ==
    /\ web.seq < MaxEvents
    /\ LET userConfig == LookupConfig(okGet)
       IN  IF userConfig = NilConfig
           THEN /\ web' = Handled(web, "skip", "setCourseFirst")
                /\ faults' = faults \cup (IF okGet THEN {} ELSE {"config"})
                /\ UNCHANGED userCfg
           ELSE IF ~okSave
           THEN /\ web' = Handled(web, "skip", "error")
                /\ faults' = faults \cup {"config"}
                /\ UNCHANGED userCfg
           ELSE /\ web' = SetupReply(SetupUserPushSchedule(Handled(web, "skip", ""),
                                                           outcome))
                /\ userCfg' = SaveUserConfig(userCfg, WebUser, userConfig.DisplayName,
                                             userConfig.Course, userConfig.Level,
                                             DefaultDailyWords, DefaultPushTime)
                /\ faults' = faults \cup (IF outcome = "ok" THEN {} ELSE {"schedule"})
    /\ UNCHANGED pushVars

\* the text "單字量:n": handleDailyWordsSelection keeps n for the next message
DailyWordsSelected(n) ==
    /\ web.seq < MaxEvents
    /\ web' = [Handled(web, "dailyWords", "askTime") EXCEPT !.temp = n]
    /\ UNCHANGED <<userCfg, faults>>
    /\ UNCHANGED pushVars

\* the text "時間:t" after a score was set: handlePushTimeSelection with no
\* course kept by the push settings menu
PushTimeSelected(pushTime, okGet, okSave, outcome) ==
    /\ web.seq < MaxEvents
    /\ LET dailyWords == IF web.temp = 0 THEN DefaultDailyWords ELSE web.temp
           userConfig == LookupConfig(okGet)
       IN  IF ~okGet
           THEN /\ web' = Handled(web, "pushTime", "error")
                /\ faults' = faults \cup {"config"}
                /\ UNCHANGED userCfg
           ELSE IF userConfig = NilConfig
           THEN /\ web' = Handled(web, "pushTime", "setCourseFirst")
                /\ UNCHANGED <<userCfg, faults>>
           ELSE IF ~okSave
           THEN /\ web' = Handled(web, "pushTime", "error")
                /\ faults' = faults \cup {"config"}
                /\ UNCHANGED userCfg
           ELSE /\ web' = SetupReply(SetupUserPushSchedule(
                              [Handled(web, "pushTime", "") EXCEPT !.temp = 0], outcome))
                /\ userCfg' = SaveUserConfig(userCfg, WebUser, userConfig.DisplayName,
                                             userConfig.Course, userConfig.Level,
                                             dailyWords, pushTime)
                /\ faults' = faults \cup (IF outcome = "ok" THEN {} ELSE {"schedule"})
    /\ UNCHANGED pushVars

\* triggerImmediateWordPush, in its goroutine: the Invoke of the vocabulary
\* function succeeds or fails, and either is only logged
TriggerImmediateWordPush(ok) ==
    /\ web.pending > 0
    /\ web' = [web EXCEPT !.pending = @ - 1,
                          !.invoked = @ \cup {IF ok THEN "invoked" ELSE "failed"}]
    /\ faults' = faults \cup (IF ok THEN {} ELSE {"invoke"})
    /\ UNCHANGED userCfg
    /\ UNCHANGED pushVars

InitWeb ==
    /\ InitFilterIdle
    /\ store = [k \in Users \X Courses |-> NoItem]
    /\ userCfg = [u \in Users |-> NoItem]
    /\ inv = <<>>

WebCourses == {"toeic", "ielts"}
WebNumbers == {0, 6, 750}
WebDailyWords == {5, 20}
WebPushTimes == {"19:00"}

NextWeb ==
    \/ \E okProfile, okSave \in BOOLEAN : FollowEvent(okProfile, okSave)
    \/ \E c \in WebCourses, okGet, okSave \in BOOLEAN : CourseInterest(c, okGet, okSave)
    \/ \E n \in WebNumbers, okGet, okGet2, okSave \in BOOLEAN :
          NumberText(n, okGet, okGet2, okSave)
    \/ \E okGet, okSave \in BOOLEAN, outcome \in ScheduleOutcomes :
          SkipPushSettings(okGet, okSave, outcome)
    \/ \E n \in WebDailyWords : DailyWordsSelected(n)
    \/ \E t \in WebPushTimes, okGet, okSave \in BOOLEAN, outcome \in ScheduleOutcomes :
          PushTimeSelected(t, okGet, okSave, outcome)
    \/ \E ok \in BOOLEAN : TriggerImmediateWordPush(ok)

SpecWeb == InitWeb /\ [][NextWeb]_vars

(***************************************************************************)
(* C24.  The immediate first push is fire-and-forget and ordered after     *)
(* scheduling: setupUserPushSchedule dispatches triggerImmediateWordPush   *)
(* only when the schedule was created, returns the result of the schedule  *)
(* creation with the push still to run, and the run of the push, whether   *)
(* it succeeds or fails, changes neither that result nor the reply sent to *)
(* the user.                                                               *)
(***************************************************************************)
C24_ImmediatePushFireAndForget ==
    /\ [](/\ web.setup = "ok" => web.reply = "settingsDone" /\ web.schedule
          /\ web.setup = "error" => web.reply = "scheduleFailed")
    /\ [][/\ web'.pending > web.pending
             => web'.setup = "ok" /\ web'.seq = web.seq + 1
          /\ web'.seq # web.seq /\ web'.setup = "ok"
             => web'.pending = web.pending + 1
          /\ web'.seq # web.seq /\ web'.setup = "error"
             => web'.pending = web.pending
          /\ web'.seq = web.seq
             => /\ web'.setup = web.setup /\ web'.reply = web.reply
                /\ web'.schedule = web.schedule /\ web'.event = web.event
                /\ userCfg' = userCfg]_vars

\* the user was told the settings are done, and the immediate push then
\* failed; an earlier one had succeeded
C24_Witness ==
    /\ web.event = "pushTime"
    /\ web.setup = "ok" /\ web.reply = "settingsDone"
    /\ web.pending = 0
    /\ web.invoked = {"invoked", "failed"}
    /\ "schedule" \in faults

\* hash1 + uint64(i)*hash2 of the word passes 2^64 and wraps around
Wraps(word, i) ==
    \/ MulCarryFrom(i, sha256[word].hash2, 1, 0) > 0
    \/ AddCarryFrom(sha256[word].hash1, U64Mul(i, sha256[word].hash2), 1, 0) > 0

\* the positions Contains probes for the word, by their index i in [0, k)
ProbePosition(f, word, i) == PositionOf(BitOf(f, getHashes(f, word)[i + 1]))

(***************************************************************************)
(* C25.  Probe positions use double hashing in 64-bit unsigned arithmetic: *)
(* for i in [0, k) the position is ((h1 + i*h2) mod 2^64) mod m, with h1   *)
(* and h2 the first and second 8 bytes of the SHA-256 digest; Add sets and *)
(* Contains probes the same k positions of a word; and for m = 8192 the    *)
(* position equals ((h1 mod m) + i*(h2 mod m)) mod m, so the 64-bit        *)
(* overflow never changes it.                                              *)
(***************************************************************************)
C25_DoubleHashing ==
    \A w \in Words :
        LET h1 == sha256[w].hash1
            h2 == sha256[w].hash2
            fresh == NewBloomFilter("u1", DefaultExpected)
        IN  /\ \A i \in 0..(bf.HashCount - 1) :
                  /\ getHashes(bf, w)[i + 1] = U64Add(h1, U64Mul(i, h2))
                  /\ ProbePosition(bf, w, i) = U64Mod(U64Add(h1, U64Mul(i, h2)), bf.Size)
                  /\ ProbePosition(bf, w, i) =
                        (U64Mod(h1, bf.Size) + i * U64Mod(h2, bf.Size)) % bf.Size
            /\ Len(getHashes(bf, w)) = bf.HashCount
            /\ {PositionOf(b) : b \in AddBits(bf, w)} =
                  {ProbePosition(bf, w, i) : i \in 0..(bf.HashCount - 1)}
            /\ Contains(BloomAdd(fresh, w), w)
            /\ \A b \in AddBits(fresh, w) :
                  ~Contains([BloomAdd(fresh, w) EXCEPT !.BitArray.on = @ \ {b}], w)

\* "a" was added and is found, and its positions come from sums that wrap
\* around 2^64
C25_Witness ==
    /\ "a" \in added
    /\ Contains(bf, "a")
    /\ Wraps("a", 1) /\ Wraps("a", 4)
    /\ \E w \in Words : ~Wraps(w, 1)

\* the messages of the error responses HandleWordPush gives before it has a
\* user config
EarlyErrors ==
    {"User ID is required", "Failed to get user configuration",
     "User configuration not found"}

(***************************************************************************)
(* C26.  HandleWordPush never returns a non-nil Go error: every return is  *)
(* a response with status "success" or "error".  Whenever it returns       *)
(* status "error" (empty userId, config lookup failure, no config,         *)
(* generation failure, push failure), the stored filter of the (user,      *)
(* course) is exactly what it was before the invocation; for an empty      *)
(* userId or a missing config it has also made no generator call and no    *)
(* push.                                                                   *)
(***************************************************************************)
C26_ErrorLeavesFilter ==
    /\ [](\A p \in DOMAIN inv :
             LET r == inv[p]
             IN  /\ r.pc = "done" => r.status \in {"success", "error"}
                 /\ r.status = "error"
                    => /\ r.message \in EarlyErrors \cup
                             {"Failed to generate words", "Failed to send words to user"}
                       /\ ~r.saved /\ saves = 0
                       /\ r.course # "" => store[<<r.userID, r.course>>] = r.before
                       /\ r.message \in EarlyErrors
                          => /\ r.calls = 0 /\ r.push = "" /\ r.course = ""
                             /\ \A u \in Users : delivered[u] = <<>>)
    /\ [][\A p \in DOMAIN inv :
             inv'[p].status = "error" /\ inv[p].status # "error"
             => store' = store /\ delivered' = delivered]_vars

\* an invocation for a user without a config has returned its error, with
\* a filter stored for the user
C26_Witness ==
    \E p \in DOMAIN inv :
        /\ inv[p].status = "error"
        /\ inv[p].message = "User configuration not found"
        /\ \E k \in DOMAIN store : store[k] # NoItem

(***************************************************************************)
(* C27.  A failure to add the delivered words to the filter is             *)
(* non-critical: when the push succeeded and AddWordsToBloomFilter then    *)
(* fails, at its load or at its save, HandleWordPush still returns status  *)
(* success with wordCount equal to the number of words pushed, and the     *)
(* stored filter is unchanged.                                             *)
(***************************************************************************)
C27_AddFailureNonCritical ==
    \A p \in DOMAIN inv :
        LET r == inv[p]
        IN  r.addErr # ""
            => /\ r.pc = "done" /\ r.status = "success"
               /\ r.push = "ok"
               /\ Len(delivered[r.userID]) = 1
               /\ r.sent = Len(delivered[r.userID][1].words)
               /\ r.sent > 0
               /\ ~r.saved
               /\ store[<<r.userID, r.course>>] = r.before

\* three words were pushed to a user with a stored filter, and the save of
\* the filter failed
C27_Witness ==
    \E p \in DOMAIN inv :
        /\ inv[p].addErr = ErrSave
        /\ inv[p].sent = 3
        /\ inv[p].before # NoItem

\* two words were pushed and the load of the filter failed
C27_WitnessLoad ==
    \E p \in DOMAIN inv :
        /\ inv[p].addErr = ErrGet
        /\ inv[p].sent = 2


\* ---------------------------------------------------------------------
\* Course and score messages against the stored push settings

\* the stored record carries push settings of its own: handlePushTimeSelection
\* or handleSkipPushSettings has written dailyWords and pushTime
HasPushSettings(item) ==
    /\ item # NoItem
    /\ item.dailyWords # 0
    /\ item.pushTime # ""

\* a message was answered by the course step (handleCourseInterest saved the
\* course) or by the score step (handleScoreInput saved the score)
CourseOrScoreSaved ==
    /\ web'.seq # web.seq
    /\ \/ web'.event = "interest" /\ web'.reply = "askScore"
       \/ web'.event = "number" /\ web'.reply = "scoreSet"

\* C28: selecting a course or entering a score changes only course and
\* level: when the user had saved push settings, GetUserConfig returns the
\* same dailyWords and pushTime after handleCourseInterest or a successful
\* handleScoreInput as it returned before.  The program does not keep them:
\* both handlers call SaveUserConfig with dailyWords 0 and pushTime "", the
\* PutItem replaces the record, and GetUserConfig falls back to 10 and 08:00.
C28_PushSettingsKept ==
    [][(HasPushSettings(userCfg[WebUser]) /\ CourseOrScoreSaved)
         => /\ GetUserConfig(userCfg'[WebUser], WebUser).DailyWords
                 = GetUserConfig(userCfg[WebUser], WebUser).DailyWords
            /\ GetUserConfig(userCfg'[WebUser], WebUser).PushTime
                 = GetUserConfig(userCfg[WebUser], WebUser).PushTime]_vars

\* C29: the score step completes: once handleScoreInput has accepted a
\* score, every later text of digits is not treated as score input until a
\* course is selected again.  The program treats the next one as score input
\* when the accepted score was 0: level 0 is not written and reads back as
\* "no level yet".
C29_ScoreStepCompletes ==
    [][(/\ web.accepted
        /\ web'.seq # web.seq
        /\ web'.event = "number"
        /\ ~web'.panicked)
         => web'.scoreInput = "false"]_vars

\* C30: EventHandler never uses a missing user config: a text message from a
\* user whose GetUserConfig gave no record or an error is handled without
\* dereferencing the nil config.  The program reads userConfig.DisplayName
\* in the course-interest cases and in the default branch with no nil test.
C30_NoNilDereference == ~web.panicked

====
